---- MODULE Spec2Model ----
(***************************************************************************)
(* A model of two pieces of OpenMDAO:                                      *)
(*   - the Iterate driver (openmdao.lib/drivers/iterate.py), a fixed-point *)
(*     loop that feeds loop_end back into loop_start until two successive  *)
(*     values differ by less than tolerance;                               *)
(*   - VariableTree (openmdao.main/vartree.py), a container whose iotype   *)
(*     is pushed down to nested VariableTrees and whose trait changes are  *)
(*     reported to the owning component.                                   *)
(* The two pieces share no state; each has its own specification           *)
(* (SpecIterate, SpecTree) over the variables of this module.              *)
(***************************************************************************)
EXTENDS Integers, Sequences, FiniteSets, TLC

\* ---------------------------------------------------------------- bounds
\* Largest max_iteration tried.
MaxN == 3
\* Sink values are drawn from 0..MaxVal.
MaxVal == 2
\* Tolerances are drawn from 0..MaxTol.
MaxTol == 2
\* Number of execute() calls on one driver.
MaxExec == 2
\* Number of VariableTree instances.
NumNodes == 3

Vals == 0..MaxVal

VARIABLES
    \* ---- Iterate
    pc,                 \* position of execute()
    max_iteration,      \* Int trait
    tolerance,          \* Float trait
    history,            \* self.history
    current_iteration,  \* self.current_iteration
    hist,               \* the local array `history` of execute()
    val0,               \* local val0
    val1,               \* local val1
    stop,               \* self._stop
    loop_start,         \* value last written to the loop_start expression
    loop_end,           \* value the loop_end expression evaluates to
    nExec,              \* number of execute() calls so far
    observed,           \* log: values returned by loop_end.evaluate() in this call
    nRuns,              \* log: run_iteration() calls completed in this call
    nWrites,            \* log: loop_start.set() calls in this call
    \* ---- VariableTree
    parent,             \* node -> its parent: a node, Comp or NoParent
    iotype,             \* node -> self._iotype
    listeners,          \* node -> registrations of _input_trait_modified
    lastOp,             \* log: the operation performed last
    events              \* log: _input_trait_modified calls the owning
                        \*      component received during the last operation

iterVars == <<pc, max_iteration, tolerance, history, current_iteration, hist,
              val0, val1, stop, loop_start, loop_end, nExec, observed, nRuns,
              nWrites>>

treeVars == <<parent, iotype, listeners, lastOp, events>>

vars == <<iterVars, treeVars>>

\* ---------------------------------------------------------------- helpers
Abs(x) == IF x < 0 THEN 0 - x ELSE x

\* numpy.zeros(n)
zeros(n) == [i \in 1..n |-> 0]

Slice_OneShort(a, k) == SubSeq(a, 1, IF k - 1 < Len(a) THEN k - 1 ELSE Len(a))

\* a[:k] of a numpy array / list
Slice(a, k) == SubSeq(a, 1, IF k < Len(a) THEN k ELSE Len(a))

\* a with a[i] = v (i is the 0-based Python index)
Store(a, i, v) == [a EXCEPT ![i + 1] = v]

\* a[i] (i is the 0-based Python index)
At(a, i) == a[i + 1]

Terminal == {"converged", "maxiter", "stopped", "failed"}

\* ---------------------------------------------------------------- the parts at rest
Nodes == 1..NumNodes

\* self.parent of a VariableTree that sits directly in a component (a parent
\* that is not a VariableTree)
Comp == 0

\* self.parent is None
NoParent == 0 - 1

NoOp == [op |-> "init", node |-> Comp, old |-> "none", given |-> "none",
         flag |-> FALSE, after |-> Comp]

\* Freshly constructed nodes nobody touches (lines 11-14 of vartree.py).
TreeAtRest ==
    /\ parent = [n \in Nodes |-> NoParent]
    /\ iotype = [n \in Nodes |-> "none"]
    /\ listeners = [n \in Nodes |-> 0]
    /\ lastOp = NoOp
    /\ events = <<>>

\* A constructed driver nobody runs (lines 32-36 of iterate.py).
DriverAtRest ==
    /\ pc = "idle"
    /\ max_iteration = 1
    /\ tolerance = 0
    /\ history = zeros(0)
    /\ current_iteration = 0
    /\ hist = <<>>
    /\ val0 = 0
    /\ val1 = 0
    /\ stop = FALSE
    /\ loop_start = 0
    /\ loop_end = 0
    /\ nExec = 0
    /\ observed = <<>>
    /\ nRuns = 0
    /\ nWrites = 0

\* ---------------------------------------------------------------- Iterate
\* Iterate.__init__ ; the traits max_iteration and tolerance are inputs the
\* caller sets before running the driver.
InitIterate ==
    /\ pc = "idle"
    /\ max_iteration \in 1..MaxN
    /\ tolerance \in 0..MaxTol
    /\ history = zeros(0)
    /\ current_iteration = 0
    /\ hist = <<>>
    /\ val0 = 0
    /\ val1 = 0
    /\ stop = FALSE
    /\ loop_start = 0
    /\ loop_end \in Vals
    /\ nExec = 0
    /\ observed = <<>>
    /\ nRuns = 0
    /\ nWrites = 0
    /\ TreeAtRest

\* The caller invokes execute() on a driver that is not executing; the
\* locals of the call are fresh.
Execute ==
    /\ pc \in {"idle"} \cup Terminal
    /\ nExec < MaxExec
    /\ pc' = "baseline"
    /\ nExec' = nExec + 1
    /\ hist' = <<>>
    /\ val0' = 0
    /\ val1' = 0
    /\ observed' = <<>>
    /\ nRuns' = 0
    /\ nWrites' = 0
    /\ UNCHANGED <<max_iteration, tolerance, history, current_iteration, stop,
                   loop_start, loop_end>>
    /\ UNCHANGED treeVars

\* Component.stop(): the cancellation flag is set from outside, at any time.
RequestStop ==
    /\ stop = FALSE
    /\ stop' = TRUE
    /\ UNCHANGED <<pc, max_iteration, tolerance, history, current_iteration,
                   hist, val0, val1, loop_start, loop_end, nExec, observed,
                   nRuns, nWrites>>
    /\ UNCHANGED treeVars

\* line 42: the initial run_iteration() returns; the workflow leaves some
\* value at the sink.
RunBaseline ==
    /\ pc = "baseline"
    /\ \E v \in Vals : loop_end' = v
    /\ nRuns' = nRuns + 1
    /\ pc' = "init"
    /\ UNCHANGED <<max_iteration, tolerance, history, current_iteration, hist,
                   val0, val1, stop, loop_start, nExec, observed, nWrites>>
    /\ UNCHANGED treeVars

\* lines 44-47
InitHistory ==
    /\ pc = "init"
    /\ current_iteration' = 0
    /\ hist' = Store(zeros(max_iteration), 0, loop_end)
    /\ observed' = Append(observed, loop_end)
    /\ pc' = "loop"
    /\ UNCHANGED <<max_iteration, tolerance, history, val0, val1, stop,
                   loop_start, loop_end, nExec, nRuns, nWrites>>
    /\ UNCHANGED treeVars

\* line 55: current_iteration >= max_iteration-1
BudgetExhausted_Early == current_iteration >= max_iteration - 2

BudgetExhausted == current_iteration >= max_iteration - 1

RaiseStop_BeforeBaseline ==
    /\ pc \in {"baseline", "loop"}
    /\ stop
    /\ pc' = "stopped"
    /\ UNCHANGED <<max_iteration, tolerance, history, current_iteration, hist,
                   val0, val1, stop, loop_start, loop_end, nExec, observed,
                   nRuns, nWrites>>
    /\ UNCHANGED treeVars

\* lines 51-52: raise RunStopped
RaiseStop ==
    /\ pc = "loop"
    /\ stop
    /\ pc' = "stopped"
    /\ UNCHANGED <<max_iteration, tolerance, history, current_iteration, hist,
                   val0, val1, stop, loop_start, loop_end, nExec, observed,
                   nRuns, nWrites>>
    /\ UNCHANGED treeVars

RaiseMaxIter_BeforeStopCheck ==
    /\ pc = "loop"
    /\ BudgetExhausted
    /\ history' = Slice(hist, current_iteration + 1)
    /\ pc' = "maxiter"
    /\ UNCHANGED <<max_iteration, tolerance, current_iteration, hist, val0,
                   val1, stop, loop_start, loop_end, nExec, observed, nRuns,
                   nWrites>>
    /\ UNCHANGED treeVars

\* lines 55-58: publish the history and raise RuntimeError
RaiseMaxIter ==
    /\ pc = "loop"
    /\ ~stop
    /\ BudgetExhausted
    /\ history' = Slice(hist, current_iteration + 1)
    /\ pc' = "maxiter"
    /\ UNCHANGED <<max_iteration, tolerance, current_iteration, hist, val0,
                   val1, stop, loop_start, loop_end, nExec, observed, nRuns,
                   nWrites>>
    /\ UNCHANGED treeVars

PassOutput_WritesBaseline ==
    /\ pc = "loop"
    /\ ~stop
    /\ ~BudgetExhausted
    /\ val0' = At(hist, 0)
    /\ loop_start' = val0'
    /\ nWrites' = nWrites + 1
    /\ pc' = "run"
    /\ UNCHANGED <<max_iteration, tolerance, history, current_iteration, hist,
                   val1, stop, loop_end, nExec, observed, nRuns>>
    /\ UNCHANGED treeVars

\* lines 61-62: val0 = history[current_iteration]; loop_start.set(val0)
PassOutput ==
    /\ pc = "loop"
    /\ ~stop
    /\ ~BudgetExhausted
    /\ val0' = At(hist, current_iteration)
    /\ loop_start' = val0'
    /\ nWrites' = nWrites + 1
    /\ pc' = "run"
    /\ UNCHANGED <<max_iteration, tolerance, history, current_iteration, hist,
                   val1, stop, loop_end, nExec, observed, nRuns>>
    /\ UNCHANGED treeVars

RunIteration_NoIncrement ==
    /\ pc = "run"
    /\ \E v \in Vals : loop_end' = v
    /\ nRuns' = nRuns + 1
    /\ pc' = "read"
    /\ UNCHANGED <<max_iteration, tolerance, history, current_iteration, hist,
                   val0, val1, stop, loop_start, nExec, observed, nWrites>>
    /\ UNCHANGED treeVars

\* lines 65-66: run_iteration() returns; current_iteration += 1
RunIteration ==
    /\ pc = "run"
    /\ \E v \in Vals : loop_end' = v
    /\ nRuns' = nRuns + 1
    /\ current_iteration' = current_iteration + 1
    /\ pc' = "read"
    /\ UNCHANGED <<max_iteration, tolerance, history, hist, val0, val1, stop,
                   loop_start, nExec, observed, nWrites>>
    /\ UNCHANGED treeVars

RunFails_PublishHistory ==
    /\ pc \in {"baseline", "run"}
    /\ pc' = "failed"
    /\ history' = Slice(hist, current_iteration + 1)
    /\ UNCHANGED <<max_iteration, tolerance, current_iteration, hist, val0,
                   val1, stop, loop_start, loop_end, nExec, observed, nRuns,
                   nWrites>>
    /\ UNCHANGED treeVars

\* lines 42, 65: run_iteration() raises; nothing in execute() catches it
RunFails ==
    /\ pc \in {"baseline", "run"}
    /\ pc' = "failed"
    /\ UNCHANGED <<max_iteration, tolerance, history, current_iteration, hist,
                   val0, val1, stop, loop_start, loop_end, nExec, observed,
                   nRuns, nWrites>>
    /\ UNCHANGED treeVars

\* lines 69-70
ReadSink ==
    /\ pc = "read"
    /\ hist' = Store(hist, current_iteration, loop_end)
    /\ val1' = At(hist', current_iteration)
    /\ observed' = Append(observed, loop_end)
    /\ pc' = "test"
    /\ UNCHANGED <<max_iteration, tolerance, history, current_iteration, val0,
                   stop, loop_start, loop_end, nExec, nRuns, nWrites>>
    /\ UNCHANGED treeVars

Converged_NonStrict == Abs(val1 - val0) <= tolerance

\* line 72: abs(val1-val0) < self.tolerance
Converged == Abs(val1 - val0) < tolerance

Converge_UnlessStopped ==
    /\ pc = "test"
    /\ Converged
    /\ IF stop
       THEN pc' = "stopped" /\ history' = history
       ELSE pc' = "converged"
            /\ history' = Slice(hist, current_iteration + 1)
    /\ UNCHANGED <<max_iteration, tolerance, current_iteration, hist, val0,
                   val1, stop, loop_start, loop_end, nExec, observed, nRuns,
                   nWrites>>
    /\ UNCHANGED treeVars

\* lines 72-73, 78: break; self.history = history[:current_iteration+1]
Converge ==
    /\ pc = "test"
    /\ Converged
    /\ history' = Slice(hist, current_iteration + 1)
    /\ pc' = "converged"
    /\ UNCHANGED <<max_iteration, tolerance, current_iteration, hist, val0,
                   val1, stop, loop_start, loop_end, nExec, observed, nRuns,
                   nWrites>>
    /\ UNCHANGED treeVars

\* line 72 false: back to the head of the while loop
Continue ==
    /\ pc = "test"
    /\ ~Converged
    /\ pc' = "loop"
    /\ UNCHANGED <<max_iteration, tolerance, history, current_iteration, hist,
                   val0, val1, stop, loop_start, loop_end, nExec, observed,
                   nRuns, nWrites>>
    /\ UNCHANGED treeVars

\* ---------------------------------------------------------------- VariableTree
\* iotype values; "none" is Python's None
IoTypes == {"none", "in", "out"}

\* Trait names, as sequences of characters.
AttrNames == {<<"x">>, <<"_", "x">>}

\* vt.name: the name under which a node is held by its parent
Name(n) == <<"vt", n>>

Children_WithParent(n) ==
    {m \in Nodes : parent[m] = n} \cup ({parent[n]} \cap Nodes)

\* the VariableTree values found in n.__dict__
Children(n) == {m \in Nodes : parent[m] = n}

\* line 22: val != self._iotype
Changed_Always(cur, val) == TRUE

Changed(cur, val) == val # cur

\* lines 24-27
RemoveFlag_Inverted(val) == IF val = "in" THEN TRUE ELSE FALSE

RemoveFlag(val) == IF val = "in" THEN FALSE ELSE TRUE

\* line 29: on_trait_change(handler, '+', remove=remove) on a node that has
\* `count` registrations of the handler; removing an unregistered handler
\* does nothing.
OnTraitChange(count, remove) ==
    IF remove THEN (IF count > 0 THEN count - 1 ELSE 0) ELSE count + 1

\* lines 20-32: the iotype setter, on st = [io |-> iotype, ls |-> listeners]
RECURSIVE SetIotype(_, _, _)
RECURSIVE SetChildren(_, _, _)
SetChildren_Skip(st, kids, val) == st

\* lines 30-32: v.iotype = val for every VariableTree v of self.__dict__
SetChildren(st, kids, val) ==
    IF kids = {} THEN st
    ELSE LET k == CHOOSE c \in kids : TRUE
         IN  SetChildren(SetIotype(st, k, val), kids \ {k}, val)

SetIotype(st, n, val) ==
    IF Changed(st.io[n], val)
    THEN LET own == [io |-> [st.io EXCEPT ![n] = val],
                     ls |-> [st.ls EXCEPT
                                ![n] = OnTraitChange(@, RemoveFlag(val))]]
         IN  SetChildren(own, Children(n), val)
    ELSE st

\* lines 11-14: VariableTree(iotype=args[n]) for every node of todo
RECURSIVE Construct(_, _, _)
Construct(st, todo, args) ==
    IF todo = {} THEN st
    ELSE LET n == CHOOSE c \in todo : TRUE
         IN  Construct(SetIotype(st, n, args[n]), todo \ {n}, args)

\* the VariableTree ancestors of n
RECURSIVE Ancestors(_)
Ancestors(n) ==
    IF parent[n] \in Nodes THEN {parent[n]} \cup Ancestors(parent[n]) ELSE {}

Descendants(n) == {m \in Nodes : n \in Ancestors(m)}

Subtree(n) == {n} \cup Descendants(n)

\* lines 48-51: the last VariableTree on the way up from n
RECURSIVE TopVT(_)
TopVT(n) == IF parent[n] \in Nodes THEN TopVT(parent[n]) ELSE n

\* line 46: name.startswith('_')
StartsWithUnderscore(attr) == Len(attr) >= 1 /\ attr[1] = "_"

Handler_ReportsSelf(n, attr) ==
    IF StartsWithUnderscore(attr) THEN <<>>
    ELSE IF parent[TopVT(n)] # NoParent
         THEN <<[name |-> Name(n), obj |-> n]>>
         ELSE <<>>

\* lines 45-53: _input_trait_modified(obj, name, old, new) of node n; the
\* result is the calls of p._input_trait_modified(p, vt.name, vt, vt) made
Handler(n, attr) ==
    IF StartsWithUnderscore(attr) THEN <<>>
    ELSE LET vt == TopVT(n)
             p  == parent[vt]
         IN  IF p # NoParent
             THEN <<[name |-> Name(vt), obj |-> vt]>>
             ELSE <<>>

\* one handler call per registration
RECURSIVE Notify(_, _)
Notify(count, calls) ==
    IF count = 0 THEN <<>> ELSE calls \o Notify(count - 1, calls)

\* lines 11-14: every node is constructed, with some iotype argument, and
\* has no parent yet.
InitTree ==
    /\ parent = [n \in Nodes |-> NoParent]
    /\ \E args \in [Nodes -> IoTypes] :
          LET st == Construct([io |-> [n \in Nodes |-> "none"],
                               ls |-> [n \in Nodes |-> 0]], Nodes, args)
          IN  /\ iotype = st.io
              /\ listeners = st.ls
    /\ lastOp = NoOp
    /\ events = <<>>
    /\ DriverAtRest

\* lines 20-32: node.iotype = val, from outside the tree
SetDirection(n, val) ==
    /\ LET st == SetIotype([io |-> iotype, ls |-> listeners], n, val)
       IN  /\ iotype' = st.io
           /\ listeners' = st.ls
    /\ lastOp' = [op |-> "set", node |-> n, old |-> iotype[n],
                  given |-> "none", flag |-> TRUE,
                  after |-> IF /\ lastOp.op = "attach"
                               /\ lastOp.flag
                               /\ parent[lastOp.node] = n
                            THEN lastOp.node ELSE Comp]
    /\ events' = <<>>
    /\ UNCHANGED parent
    /\ UNCHANGED iterVars

AttachToTree_OnlyIfUnset(n, p) ==
    /\ parent[n] = NoParent
    /\ p < n
    /\ parent' = [parent EXCEPT ![n] = p]
    /\ LET st == IF iotype[n] = "none"
                 THEN SetIotype([io |-> iotype, ls |-> listeners], n,
                                iotype[p])
                 ELSE [io |-> iotype, ls |-> listeners]
       IN  /\ iotype' = st.io
           /\ listeners' = st.ls
    /\ lastOp' = [op |-> "attach", node |-> n, old |-> iotype[n],
                  given |-> iotype[p],
                  flag |-> \A m \in Subtree(n) : iotype[m] = "none",
                  after |-> Comp]
    /\ events' = <<>>
    /\ UNCHANGED iterVars

\* lines 35-38: n becomes a child of the VariableTree p and tree_rooted()
\* is called on it.  The nodes are numbered so that a parent has a smaller
\* number than its children (every tree has such a numbering), which keeps
\* the parent relation free of cycles.
AttachToTree(n, p) ==
    /\ parent[n] = NoParent
    /\ p < n
    /\ parent' = [parent EXCEPT ![n] = p]
    /\ LET st == SetIotype([io |-> iotype, ls |-> listeners], n, iotype[p])
       IN  /\ iotype' = st.io
           /\ listeners' = st.ls
    /\ lastOp' = [op |-> "attach", node |-> n, old |-> iotype[n],
                  given |-> iotype[p],
                  flag |-> \A m \in Subtree(n) : iotype[m] = "none",
                  after |-> Comp]
    /\ events' = <<>>
    /\ UNCHANGED iterVars

\* lines 35-36, 39-42: n becomes a variable of a component and tree_rooted()
\* is called on it; decl is the iotype of the component's trait of that
\* name ("none": no such trait, or a trait without iotype)
AttachToComponent(n, decl) ==
    /\ parent[n] = NoParent
    /\ parent' = [parent EXCEPT ![n] = Comp]
    /\ LET st == IF decl # "none"
                 THEN SetIotype([io |-> iotype, ls |-> listeners], n, decl)
                 ELSE [io |-> iotype, ls |-> listeners]
       IN  /\ iotype' = st.io
           /\ listeners' = st.ls
    /\ lastOp' = [op |-> "attach", node |-> n, old |-> iotype[n],
                  given |-> decl,
                  flag |-> \A m \in Subtree(n) : iotype[m] = "none",
                  after |-> Comp]
    /\ events' = <<>>
    /\ UNCHANGED iterVars

\* the trait attr of node n changes: traits calls every registered
\* _input_trait_modified of n (lines 45-53)
Mutate(n, attr) ==
    /\ events' = Notify(listeners[n], Handler(n, attr))
    /\ lastOp' = [op |-> "mutate", node |-> n, old |-> "none",
                  given |-> "none", flag |-> ~StartsWithUnderscore(attr), after |-> Comp]
    /\ UNCHANGED <<parent, iotype, listeners>>
    /\ UNCHANGED iterVars

NextTree ==
    \/ \E n \in Nodes, val \in IoTypes : SetDirection(n, val)
    \/ \E n \in Nodes, p \in Nodes : AttachToTree(n, p)
    \/ \E n \in Nodes, decl \in IoTypes : AttachToComponent(n, decl)
    \/ \E n \in Nodes, attr \in AttrNames : Mutate(n, attr)

\* ---------------------------------------------------------------- specifications
NextIterate ==
    \/ Execute
    \/ RequestStop
    \/ RunBaseline
    \/ InitHistory
    \/ RaiseStop
    \/ RaiseMaxIter
    \/ PassOutput
    \/ RunIteration
    \/ RunFails
    \/ ReadSink
    \/ Converge
    \/ Continue

SpecIterate == InitIterate /\ [][NextIterate]_vars

\* One statement of execute() (lines 41-78), a workflow run included.
DriverStep ==
    \/ RunBaseline
    \/ InitHistory
    \/ RaiseStop
    \/ RaiseMaxIter
    \/ PassOutput
    \/ RunIteration
    \/ RunFails
    \/ ReadSink
    \/ Converge
    \/ Continue

\* A driver about to be called, in any state earlier calls can have left
\* in the attributes execute() reads or resets: the iteration counter and
\* the cancellation flag.
InitCall ==
    /\ pc = "idle"
    /\ max_iteration \in 1..MaxN
    /\ tolerance \in 0..MaxTol
    /\ history = zeros(0)
    /\ current_iteration \in 0..(MaxN - 1)
    /\ hist = <<>>
    /\ val0 = 0
    /\ val1 = 0
    /\ stop \in BOOLEAN
    /\ loop_start = 0
    /\ loop_end \in Vals
    /\ nExec = 0
    /\ observed = <<>>
    /\ nRuns = 0
    /\ nWrites = 0
    /\ TreeAtRest

\* the one call of execute()
Call == pc = "idle" /\ Execute

NextCall ==
    \/ Call
    \/ RequestStop
    \/ RunBaseline
    \/ InitHistory
    \/ RaiseStop
    \/ RaiseMaxIter
    \/ PassOutput
    \/ RunIteration
    \/ RunFails
    \/ ReadSink
    \/ Converge
    \/ Continue

\* One call of execute(), followed to its end.  execute() is sequential
\* code: once called it keeps going, and every workflow run returns or
\* raises.
SpecCallFair == InitCall /\ [][NextCall]_vars /\ WF_vars(DriverStep)

SpecTree == InitTree /\ [][NextTree]_vars

\* ---------------------------------------------------------------- Iterate: properties
\* No two successive observed sink values are closer than tolerance.
NoConvergingPair ==
    \A i \in 1..(Len(observed) - 1) :
        Abs(observed[i + 1] - observed[i]) >= tolerance

C2_MaxIterAfterNMinusOneSteps ==
    /\ pc = "maxiter" =>
        /\ current_iteration = max_iteration - 1
        /\ nRuns = max_iteration
        /\ nWrites = max_iteration - 1
        /\ Len(history) = current_iteration + 1
    /\ (pc \in Terminal \ {"failed"} /\ ~stop /\ NoConvergingPair) =>
        pc = "maxiter"

C2_Witness ==
    /\ pc = "maxiter"
    /\ max_iteration = MaxN
    /\ ~stop
    /\ NoConvergingPair

\* C3: when the cancellation flag is set as a loop step begins, the step
\* writes nothing to the feedback source, runs no workflow and execute()
\* fails with RunStopped, also when the iteration budget is exhausted.
C3_StopBeforeAnyWork ==
    [][(pc = "loop" /\ stop) =>
          /\ pc' = "stopped"
          /\ nWrites' = nWrites
          /\ nRuns' = nRuns
          /\ loop_start' = loop_start
          /\ loop_end' = loop_end]_vars

C3_Witness ==
    /\ pc = "stopped"
    /\ current_iteration >= 1
    /\ BudgetExhausted

\* C4: whenever execute() ends with RunStopped or with the max-iterations
\* error, self.history holds exactly the sink values observed during this
\* execution (length current_iteration + 1).
C4_FatalHistoryTruncated ==
    pc \in {"stopped", "maxiter"} =>
        /\ history = observed
        /\ Len(history) = current_iteration + 1

\* C5: a failing workflow run ends execute() with that failure; from the
\* beginning of the failing step on self.history is not changed, and once
\* the run has failed nothing is written, run or read any more until the
\* caller invokes execute() again.
C5_WorkflowFailurePropagates ==
    [][/\ (pc' \in {"baseline", "run", "failed"}) => history' = history
       /\ pc = "failed" => pc' \in {"failed", "baseline"}
       /\ pc' = "failed" =>
              UNCHANGED <<loop_start, loop_end, nRuns, nWrites, observed,
                          hist, current_iteration>>]_vars

C5_Witness ==
    /\ pc = "failed"
    /\ nRuns >= 1
    /\ Len(history) >= 2
    /\ history # observed

\* ---------------------------------------------------------------- VariableTree: properties
\* the node of Subtree(n) that sits directly in the component, if any
OwnedTop(n) == {a \in {n} \cup Ancestors(n) : parent[a] = Comp}

\* C6: after any sequence of attach and direction-setting operations,
\* changing the direction of a node to a new value d leaves every
\* descendant VariableTree with direction d.
C6_SetReachesEveryDescendant ==
    (lastOp.op = "set" /\ lastOp.old # iotype[lastOp.node]) =>
        \A m \in Descendants(lastOp.node) : iotype[m] = iotype[lastOp.node]

\* C7: attaching a sub-tree whose nodes all have unset direction to a
\* parent with direction OUT sets every VariableTree of the sub-tree to OUT;
\* setting the parent to IN right after that sets every one of them to IN
\* and registers its change-notification hook.
C7_AttachUnsetThenSetIn ==
    /\ (/\ lastOp.op = "attach"
        /\ lastOp.flag
        /\ parent[lastOp.node] \in Nodes
        /\ iotype[parent[lastOp.node]] = "out") =>
           \A m \in Subtree(lastOp.node) : iotype[m] = "out"
    /\ (/\ lastOp.op = "set"
        /\ lastOp.after \in Nodes
        /\ lastOp.old = "out"
        /\ iotype[lastOp.node] = "in") =>
           \A m \in Subtree(lastOp.after) :
               iotype[m] = "in" /\ listeners[m] = 1

C7_Witness ==
    /\ lastOp.op = "set"
    /\ lastOp.after \in Nodes
    /\ lastOp.old = "out"
    /\ iotype[lastOp.node] = "in"
    /\ Descendants(lastOp.after) # {}

\* C8: in every reachable state every node has its change-notification hook
\* registered if and only if its direction is IN, and at most once.
C8_ListeningIffIn ==
    \A n \in Nodes :
        /\ (listeners[n] >= 1) <=> (iotype[n] = "in")
        /\ listeners[n] <= 1

C8_Witness ==
    /\ lastOp.op = "set"
    /\ lastOp.old = "out"
    /\ iotype[lastOp.node] = "in"
    /\ Descendants(lastOp.node) # {}
    /\ \A m \in Subtree(lastOp.node) : iotype[m] = "in" /\ listeners[m] = 1
    /\ \E m \in Nodes : iotype[m] # "in" /\ listeners[m] = 0

\* C9 as stated: a mutation of a public child of a node that lies under an
\* ancestor whose direction is not IN delivers no change event to the
\* owning component.
C9_NoEventUnderNonInAncestor ==
    (/\ lastOp.op = "mutate"
     /\ lastOp.flag
     /\ \E a \in Ancestors(lastOp.node) : iotype[a] # "in") =>
        events = <<>>

\* C9 as amended: a mutation of a public child of a node whose own
\* direction is not IN delivers no change event to the owning component,
\* whatever the directions of the other nodes.
C9_NoEventFromNonInNode ==
    (lastOp.op = "mutate" /\ iotype[lastOp.node] # "in") => events = <<>>

C9_Witness ==
    /\ lastOp.op = "mutate"
    /\ lastOp.flag
    /\ iotype[lastOp.node] = "out"
    /\ OwnedTop(lastOp.node) # {}
    /\ \E a \in Ancestors(lastOp.node) : iotype[a] = "in"

\* C10: a mutation of a public child of a node with direction IN, at any
\* depth of a tree owned by a component, delivers exactly one change event
\* to the component, carrying the name and the instance of the top-level
\* VariableTree directly under the component.
C10_OneEventNamedForTopLevel ==
    (/\ lastOp.op = "mutate"
     /\ lastOp.flag
     /\ iotype[lastOp.node] = "in"
     /\ OwnedTop(lastOp.node) # {}) =>
        \E top \in OwnedTop(lastOp.node) :
            events = <<[name |-> Name(top), obj |-> top]>>

C10_Witness ==
    /\ lastOp.op = "mutate"
    /\ lastOp.flag
    /\ iotype[lastOp.node] = "in"
    /\ OwnedTop(lastOp.node) # {}
    /\ Cardinality(Ancestors(lastOp.node)) = 2
    /\ \E a \in Ancestors(lastOp.node) : iotype[a] = "out"
    /\ Len(events) = 1

\* C11 as stated: attach (tree_rooted) changes the attached node's direction
\* only when that direction is unset: an unset node takes its VariableTree
\* parent's current direction, or the declared iotype of the same-named
\* field of a component; a node with direction IN or OUT keeps it.
C11_AttachKeepsSetDirection ==
    lastOp.op = "attach" =>
        /\ lastOp.old # "none" => iotype[lastOp.node] = lastOp.old
        /\ lastOp.old = "none" => iotype[lastOp.node] = lastOp.given

\* C11 as amended: attach gives the attached node its VariableTree parent's
\* current direction whatever direction the node had (unset included);
\* under a component it gives the node the declared iotype of the
\* same-named field when there is one, and leaves the direction as it was
\* otherwise.
C11_AttachTakesParentDirection ==
    lastOp.op = "attach" =>
        IF parent[lastOp.node] \in Nodes
        THEN /\ iotype[lastOp.node] = lastOp.given
             /\ iotype[lastOp.node] = iotype[parent[lastOp.node]]
        ELSE IF lastOp.given # "none"
             THEN iotype[lastOp.node] = lastOp.given
             ELSE iotype[lastOp.node] = lastOp.old

C11_Witness ==
    /\ lastOp.op = "attach"
    /\ parent[lastOp.node] \in Nodes
    /\ lastOp.old = "in"
    /\ iotype[lastOp.node] = "out"
    /\ listeners[lastOp.node] = 0

\* C12: setting a node's direction to the value it already has changes
\* nothing: no direction and no listener registration of any node changes.
C12_SetSameValueIsNoOp ==
    [][(lastOp'.op = "set" /\ lastOp'.old = iotype'[lastOp'.node]) =>
          /\ iotype' = iotype
          /\ listeners' = listeners
          /\ parent' = parent]_vars

C12_Witness ==
    /\ lastOp.op = "set"
    /\ lastOp.old = "in"
    /\ iotype[lastOp.node] = "in"
    /\ listeners[lastOp.node] = 1
    /\ \E m \in Descendants(lastOp.node) : iotype[m] # "in"

\* C18: setting the direction of a node changes the direction and the
\* listener registration of nodes of its own sub-tree only: ancestors,
\* siblings and every other node keep theirs.
C18_SetTouchesOwnSubtreeOnly ==
    [][lastOp'.op = "set" =>
          \A m \in Nodes \ Subtree(lastOp'.node) :
              /\ iotype'[m] = iotype[m]
              /\ listeners'[m] = listeners[m]]_vars

C18_Witness ==
    /\ lastOp.op = "set"
    /\ lastOp.old # iotype[lastOp.node]
    /\ parent[lastOp.node] \in Nodes
    /\ iotype[parent[lastOp.node]] # iotype[lastOp.node]
    /\ \E m \in Nodes \ {lastOp.node} :
          /\ parent[m] = parent[lastOp.node]
          /\ iotype[m] # iotype[lastOp.node]

\* workflow runs begun in this call of execute()
RunsStarted == nRuns + (IF pc \in {"baseline", "run", "failed"} THEN 1 ELSE 0)

\* C13: every call of execute() (max_iteration >= 1, runs that return)
\* ends in exactly one of converged, max iterations exceeded, stopped or a
\* workflow failure, after at most max_iteration workflow runs with the
\* baseline; the outcome is entered once and nothing more is done after it
\* until execute() is called again.
C13_ExecuteTerminates ==
    /\ [](RunsStarted <= max_iteration)
    /\ [][(pc \in Terminal) =>
            (/\ pc' \in {pc, "baseline"}
             /\ (pc' = pc) =>
                    (UNCHANGED <<history, current_iteration, hist, loop_start,
                                 loop_end, observed, nRuns, nWrites>>))]_vars
    /\ (pc = "baseline") ~> (pc \in Terminal)

C13_Witness ==
    /\ pc = "converged"
    /\ max_iteration = MaxN
    /\ nRuns = max_iteration
    /\ stop

\* C14: execute() begins with exactly one baseline workflow run, before any
\* write to the feedback source and before the first cancellation check,
\* also when cancellation was requested before the call; the baseline run
\* does not advance the iteration counter, which is 0 when the first loop
\* step begins.
C14_BaselineRunComesFirst ==
    /\ pc \in {"baseline"} => (nRuns = 0 /\ nWrites = 0)
    /\ pc = "init" => (nRuns = 1 /\ nWrites = 0)
    /\ pc = "stopped" => nRuns >= 1
    /\ (pc \in {"loop", "stopped", "maxiter"} /\ nRuns = 1) =>
           (current_iteration = 0 /\ nWrites = 0)
    /\ nWrites >= 1 => nRuns >= 1
    /\ (pc = "failed" /\ nRuns = 0) => (nWrites = 0 /\ observed = <<>>)

C14_Witness ==
    /\ pc = "stopped"
    /\ nExec = MaxExec
    /\ nRuns = 1
    /\ nWrites = 0
    /\ current_iteration = 0
    /\ Len(history) >= 2

\* C15: whenever execute() has ended by convergence or by exceeding the
\* iteration budget, self.history has between 1 and max_iteration entries.
C15_HistoryWithinBudget ==
    pc \in {"converged", "maxiter"} =>
        (1 <= Len(history) /\ Len(history) <= max_iteration)

C15_Witness ==
    /\ pc = "converged"
    /\ max_iteration = MaxN
    /\ Len(history) = max_iteration

\* C16 as stated: with max_iteration = N and no convergence, the history
\* left by the failing execute() has length N-1.
C16_MaxIterHistoryNMinusOne ==
    pc = "maxiter" => Len(history) = max_iteration - 1

\* C16 as amended: with max_iteration = N and no convergence, the history
\* left by the failing execute() has length N (the baseline value and one
\* value for each of the N-1 loop steps), all of them observed values.
C16_MaxIterHistoryN ==
    pc = "maxiter" =>
        /\ Len(history) = max_iteration
        /\ history = observed

C16_Witness ==
    /\ pc = "maxiter"
    /\ max_iteration = MaxN
    /\ Len(history) = MaxN
    /\ history[MaxN] # 0

\* the sink value read last in this call
LastObserved == observed[Len(observed)]

\* C17: in every loop step the feedback source is written first, then the
\* workflow runs once, then the iteration counter is incremented, then the
\* sink is read once; the value written is the sink value read at the end
\* of the previous step (the baseline read for the first step), that is
\* history[current_iteration] before the increment.
C17_StepOrder ==
    [][/\ (pc = "loop" /\ pc' = "run") =>
              /\ nWrites' = nWrites + 1
              /\ loop_start' = LastObserved
              /\ loop_start' = At(hist, current_iteration)
              /\ nRuns' = nRuns
              /\ current_iteration' = current_iteration
              /\ observed' = observed
       /\ (pc = "run" /\ pc' # pc) =>
              /\ nWrites' = nWrites
              /\ observed' = observed
              /\ \/ /\ pc' = "read"
                    /\ nRuns' = nRuns + 1
                    /\ current_iteration' = current_iteration + 1
                 \/ /\ pc' = "failed"
                    /\ nRuns' = nRuns
                    /\ current_iteration' = current_iteration
       /\ (pc = "read" /\ pc' # pc) =>
              /\ pc' = "test"
              /\ observed' = Append(observed, loop_end)
              /\ At(hist', current_iteration) = loop_end
              /\ nRuns' = nRuns
              /\ nWrites' = nWrites
              /\ current_iteration' = current_iteration
       /\ (pc' \in {"loop", "test"}) =>
              /\ nWrites' = current_iteration'
              /\ nRuns' = current_iteration' + 1
              /\ Len(observed') = current_iteration' + 1]_vars

C17_Witness ==
    /\ pc = "test"
    /\ current_iteration = 2
    /\ nWrites = 2
    /\ loop_start = observed[2]
    /\ observed[1] # observed[2]

\* C19: a cancellation requested during a workflow run is acted on only at
\* the start of the next loop step: when the sink value read after that run
\* passes the convergence test, execute() returns normally as converged and
\* publishes the history although the flag is set; RunStopped is not raised.
C19_ConvergenceBeatsLateStop ==
    [][(/\ pc \in {"run", "read", "test"}
        /\ stop
        /\ pc' # pc) =>
          /\ pc' # "stopped"
          /\ (/\ pc = "test"
              /\ Abs(LastObserved - observed[Len(observed) - 1]) < tolerance)
               => (pc' = "converged" /\ history' = observed)]_vars

C19_Witness ==
    /\ pc = "test"
    /\ stop
    /\ Abs(LastObserved - observed[Len(observed) - 1]) < tolerance

\* C20: with tolerance = 0 execute() never ends as converged, even when two
\* successive sink values are equal: it ends with the max-iterations error,
\* with RunStopped or with a workflow failure.
C20_ZeroToleranceNeverConverges ==
    tolerance = 0 =>
        /\ pc # "converged"
        /\ pc \in Terminal => pc \in {"maxiter", "stopped", "failed"}
        /\ (pc = "loop" /\ ~stop /\ BudgetExhausted) =>
               Len(observed) = max_iteration

C20_Witness ==
    /\ tolerance = 0
    /\ pc = "maxiter"
    /\ Len(observed) >= 2
    /\ observed[1] = observed[2]

====
